---- MODULE Spec2Model ----
(***************************************************************************)
(* MCP client core of perplexity-ai-app: MCPClientManager                  *)
(* (mcp-client-manager.js) and MCPIntegration (mcp-integration.js), and    *)
(* the AI-completion router: ProviderRouter, RoutingPolicy, ResponseCache. *)
(*                                                                         *)
(* Strings that the code concatenates or compares by prefix/suffix (server *)
(* ids, tool names, registry keys) are sequences of one-character strings, *)
(* so that `${serverId}/${tool.name}`, endsWith and startsWith are         *)
(* computed as the code computes them.                                     *)
(*                                                                         *)
(* Tool, resource and prompt descriptors carry the fields of the MCP       *)
(* schema (name, description, inputSchema), of which the model keeps name. *)
(*                                                                         *)
(* Spec     : a host drives one MCPClientManager through initialize() and  *)
(*            shutdown(), calls of initialize() overlapping freely.        *)
(* SpecCall : a host that awaits each initialize() and calls tools.        *)
(* SpecConn : the process (stdio) transport, started from a manager whose  *)
(*            command servers hold connected = true (the state line 442 of *)
(*            createCommandConnection assigns).                            *)
(* SpecInt  : MCPIntegration over its manager: initialize() and the        *)
(*            'mcp-refresh' handler.                                       *)
(* SpecFrame: the stdout 'data' listener of one connected process server,  *)
(*            its output delivered byte by byte in reads of any sizes.     *)
(* SpecRouter: a host awaiting each ProviderRouter.complete() (provider-   *)
(*            router.js, routing-policy.js, response-cache.js), requests   *)
(*            with and without provider, model, options and context.       *)
(* SpecCache: the same router serving requests that name their provider    *)
(*            and model, enough of them to fill the cache.                 *)
(***************************************************************************)
EXTENDS Integers, Sequences, FiniteSets, TLC

\* ------------------------------------------------------------------ bounds
MaxInitCalls == 2     \* initialize() invocations a behaviour may contain
MaxShutdowns == 1     \* shutdown() invocations
MaxCallShutdowns == 2 \* shutdown() invocations of the host of SpecCall
MaxCalls     == 1     \* callTool invocations of the host of SpecCall
MaxConnCalls == 2     \* callTool invocations of the host of SpecConn
MaxClock     == 2     \* values Date.now() takes
MaxRefreshes == 2     \* 'mcp-refresh' invocations
MaxLines     == 2     \* newline-terminated lines a process writes in SpecFrame
MaxFrameCalls == 1    \* callTool invocations of the host of SpecFrame
MaxRequests  == 2     \* complete() invocations of the host of SpecRouter
MaxCacheRequests == 4 \* complete() invocations of the host of SpecCache
MaxRouterClock == 2   \* ticks of Date.now() in SpecRouter
MaxCacheClock == 1    \* ticks of Date.now() in SpecCache

\* ------------------------------------------------- configuration, upstream
\* Object.entries(this.serverConfigs): the configured servers, in order.
ServerIds == << <<"a">>, <<"a", "b">> >>
N == Len(ServerIds)
Srv == 1..N

E  == <<"e">>
NE == <<"n", "/", "e">>
R  == <<"r">>
P  == <<"p">>
Z  == <<"z">>
ToolNames == {E, NE}

\* What each server's resources/list and prompts/list answer.
UpstreamResources(i) == <<R>>
UpstreamPrompts(i)   == IF i = 1 THEN <<>> ELSE <<P>>

Kinds == {"sse", "command", "invalid"}

\* The tool catalogs a server's tools/list may answer with.
Catalogs(i) == IF i = 1 THEN {<<NE>>, <<NE, E>>} ELSE {<<E>>}

VARIABLES
  upstream,       \* what each server's tools/list answers, fixed for a behaviour
  kind,           \* config.type === 'sse' | config.command | neither, per server
  answers,        \* whether the server answers an initialize request with a result
  isInitialized,  \* this.isInitialized
  servers,        \* this.servers: server -> connection object (NoObj: no entry)
  objs,           \* the connection objects createXConnection has made
  tools,          \* this.tools, in Map insertion order
  resources,      \* this.resources
  prompts,        \* this.prompts
  task,           \* the initialize() invocations and where each is suspended
  calls,          \* callTool invocations handed to a transport
  ncall,          \* callTool invocations so far
  lastCall,       \* the latest callTool invocation: its argument and how it ended
  known,          \* registry keys at the latest shutdown() (cleared by initialize())
  nshut,          \* shutdown() invocations so far
  nInitialized,   \* 'initialized' events emitted
  now,            \* Date.now()
  mcpIntegration, \* the MCPIntegration object over this manager
  stdout,         \* a server process's output: bytes to come, the framing buffer
  router          \* the ProviderRouter: its ResponseCache, clock and request history

vars == <<upstream, kind, answers, isInitialized, servers, objs, tools, resources, prompts,
          task, calls, ncall, lastCall, known, nshut, nInitialized, now, mcpIntegration,
          stdout, router>>

\* ----------------------------------------------------------------- strings
Slash == <<"/">>

endsWith(s, suf) ==
  /\ Len(suf) <= Len(s)
  /\ SubSeq(s, Len(s) - Len(suf) + 1, Len(s)) = suf

startsWith(s, pre) ==
  /\ Len(pre) <= Len(s)
  /\ SubSeq(s, 1, Len(pre)) = pre

\* `${serverId}/${tool.name}`
toolKey(i, nm) == ServerIds[i] \o Slash \o nm

\* -------------------------------------------------------------------- Map
\* A JavaScript Map as the sequence of its entries in insertion order.
MapHas(m, k) == \E j \in 1..Len(m) : m[j].key = k

MapGet(m, k) == m[CHOOSE j \in 1..Len(m) : m[j].key = k]

\* Map.prototype.set: a new key is appended, an existing key keeps its place.
MapSet(m, e) ==
  IF MapHas(m, e.key)
    THEN [j \in 1..Len(m) |-> IF m[j].key = e.key THEN e ELSE m[j]]
    ELSE Append(m, e)

\* registerAll keyed by the descriptor's own name, without the server id.
RECURSIVE registerAll_bareKey(_, _, _)
registerAll_bareKey(m, i, list) ==
  IF list = <<>> THEN m
  ELSE registerAll_bareKey(MapSet(m, [key |-> Head(list), serverId |-> i,
                                      name |-> Head(list)]),
                           i, Tail(list))

\* for (const d of list) map.set(`${serverId}/${d}`, {serverId, ...d})
RECURSIVE registerAll(_, _, _)
registerAll(m, i, list) ==
  IF list = <<>> THEN m
  ELSE registerAll(MapSet(m, [key |-> toolKey(i, Head(list)), serverId |-> i,
                              name |-> Head(list)]),
                   i, Tail(list))

\* ------------------------------------------------------------ connections
Inv == 1..MaxInitCalls
ObjIds == Inv \X Srv
NoObj == <<0, 0>>
Ids == 1..MaxClock
NoCall == 0

NoHandlers == [id \in Ids |-> NoCall]

\* A connection object as createXConnection builds it; wasConnected records
\* that its connected flag has been true at some time.
FreshObj ==
  [connected |-> FALSE, proc |-> "none", handlers |-> NoHandlers, wasConnected |-> FALSE]

IdleTask == [pc |-> "idle", idx |-> 0, disturbed |-> FALSE, ran |-> FALSE]

NoLastCall == [name |-> <<>>, outcome |-> "none"]

\* new MCPIntegration(mainWindow): no manager, not initialized, empty registry.
\* pc is where its initialize() stands; refreshes and refreshed record the
\* 'mcp-refresh' invocations and what the latest returned; refreshing holds
\* from the handler's run until its reply has reached the renderer;
\* highPriority is what the latest getHighPriorityTools() returned.
FreshIntegration ==
  [mcpManager |-> FALSE, isInitialized |-> FALSE, toolRegistry |-> <<>>, pc |-> "idle",
   refreshes |-> 0, refreshed |-> "none", refreshing |-> FALSE, highPriority |-> <<>>]

\* An absent string property and an absent numeric property of a request.
Undefined == "undefined"

NoNumber == -1

NoRouting == [provider |-> Undefined, model |-> Undefined, reason |-> "none"]

NoPrompt == [text |-> "", length |-> 0]

\* cache.get's null.
NoResponse == [routing |-> NoRouting, prompt |-> NoPrompt, cached |-> FALSE]

NoParams == [provider |-> Undefined, model |-> Undefined, prompt |-> NoPrompt,
             options |-> [temperature |-> NoNumber, max_tokens |-> NoNumber],
             context |-> [requiresReasoning |-> FALSE, requiresSpeed |-> FALSE,
                          budget |-> NoNumber]]

\* No complete() has run yet.
NoRequest == [params |-> NoParams, response |-> NoResponse, called |-> FALSE,
              threw |-> FALSE]

\* new ProviderRouter(config): an empty cache index and request history.
\* index is the cache's Map together with the file each entry names; now is
\* Date.now(); last is the latest complete(): its params, what it returned,
\* whether it called provider.complete, whether it threw.
FreshRouter == [index |-> <<>>, now |-> 0, requestHistory |-> <<>>, last |-> NoRequest]

\* No process output is modelled: nothing to come, nothing buffered.
NoStdout == [output |-> <<>>, rest |-> <<>>, buffer |-> <<>>, dispatched |-> <<>>]

Active(t) == t.pc \in {"connect", "tools", "resources", "prompts"}

\* tools/list of server i.
UpstreamTools(i) == upstream[i]

Init ==
  /\ upstream \in [Srv -> UNION {Catalogs(i) : i \in Srv}]
  /\ \A i \in Srv : upstream[i] \in Catalogs(i)
  /\ kind \in [Srv -> Kinds]
  /\ answers \in [Srv -> BOOLEAN]
  /\ \A i \in Srv : kind[i] # "sse" => answers[i]
  /\ isInitialized = FALSE
  /\ servers = [i \in Srv |-> NoObj]
  /\ objs = [o \in ObjIds |-> FreshObj]
  /\ tools = <<>>
  /\ resources = <<>>
  /\ prompts = <<>>
  /\ task = [k \in Inv |-> IdleTask]
  /\ calls = <<>>
  /\ ncall = 0
  /\ lastCall = NoLastCall
  /\ known = {}
  /\ nshut = 0
  /\ nInitialized = 0
  /\ now = 1
  /\ mcpIntegration = FreshIntegration
  /\ stdout = NoStdout
  /\ router = FreshRouter

\* ------------------------------------------------------------- initialize
\* The first 'sse' entry at or after i: the next connect attempt that suspends.
nextSuspending(i) ==
  IF \E j \in i..N : kind[j] = "sse"
    THEN CHOOSE j \in i..N :
           kind[j] = "sse" /\ \A h \in i..(j - 1) : kind[h] # "sse"
    ELSE N + 1

\* createCommandConnection up to its await: the object is built with
\* connected = false, the process is spawned, and sendCommand is called for
\* 'initialize'. sendCommand rejects at once when !server.connected, so the
\* attempt throws 'Command connection failed' and the object is dropped with
\* its process still running.
createCommandConnection(ob) ==
  [ob EXCEPT !.proc = "running"]

\* The for-loop of initialize() from entry i on, run to its next suspension:
\* entries that are neither 'sse' nor a command throw, command entries spawn and
\* throw, each is caught and the loop goes on; an 'sse' entry suspends in
\* createSSEConnection; past the last entry the manager is marked initialized
\* and 'initialized' is emitted.
initializeLoop(k, i, tk, ob) ==
  LET j == nextSuspending(i) IN
  /\ objs' = [o \in ObjIds |->
               IF o[1] = k /\ o[2] \in i..(j - 1) /\ kind[o[2]] = "command"
                 THEN createCommandConnection(ob[o])
                 ELSE ob[o]]
  /\ IF j > N
       THEN /\ task' = [tk EXCEPT ![k].pc = "returned", ![k].idx = 0]
            /\ isInitialized' = TRUE
            /\ nInitialized' = nInitialized + 1
       ELSE /\ task' = [tk EXCEPT ![k].pc = "connect", ![k].idx = j]
            /\ UNCHANGED <<isInitialized, nInitialized>>

\* Every invocation in progress is marked as having run beside another call.
disturb(tk) ==
  [h \in Inv |-> IF Active(tk[h]) THEN [tk[h] EXCEPT !.disturbed = TRUE] ELSE tk[h]]

\* initialize(): returns at once on an initialized manager, else runs the loop.
initialize(k) ==
  /\ task[k].pc = "idle"
  /\ \A h \in 1..(k - 1) : task[h].pc # "idle"
  /\ IF isInitialized
       THEN /\ task' = [task EXCEPT ![k].pc = "returned"]
            /\ UNCHANGED <<isInitialized, nInitialized, objs>>
       ELSE initializeLoop(k, 1,
              [disturb(task) EXCEPT ![k].ran = TRUE,
                 ![k].disturbed = \E h \in Inv : Active(task[h])],
              objs)
  /\ known' = {}
  /\ UNCHANGED <<upstream, kind, answers, servers, tools, resources, prompts, calls,
                 ncall, lastCall, nshut, now>>

\* What a server may do with a request: a result, a JSON-RPC error reply, or a
\* failure of the request (HTTP status >= 400, network error, client timeout).
Outcomes == {"result", "rpcerror", "fail"}

InitializeOutcomes(i) == IF answers[i] THEN {"result"} ELSE {"rpcerror", "fail"}

\* createSSEConnection that takes up the connection object of the first
\* invocation again instead of building a new one.
createSSEConnection_reusesObject(k, out) ==
  LET i == task[k].idx
      o == <<1, i>> IN
  /\ task[k].pc = "connect"
  /\ out \in InitializeOutcomes(i)
  /\ IF out = "fail"
       THEN /\ initializeLoop(k, i + 1, task, objs)
            /\ UNCHANGED servers
       ELSE /\ objs' = [objs EXCEPT ![o].connected = TRUE, ![o].wasConnected = TRUE]
            /\ servers' = [servers EXCEPT ![i] = o]
            /\ task' = [task EXCEPT ![k].pc = "tools"]
            /\ UNCHANGED <<isInitialized, nInitialized>>
  /\ UNCHANGED <<upstream, kind, answers, tools, resources, prompts, calls, ncall,
                 lastCall, known,
                 nshut, now>>

\* createSSEConnection resumes: makeSSERequest resolved with the parsed body
\* (whether it holds a result or an error member) or rejected.
createSSEConnection(k, out) ==
  LET i == task[k].idx
      o == <<k, i>> IN
  /\ task[k].pc = "connect"
  /\ out \in InitializeOutcomes(i)
  /\ IF out = "fail"
       THEN /\ initializeLoop(k, i + 1, task, objs)
            /\ UNCHANGED servers
       ELSE /\ objs' = [objs EXCEPT ![o].connected = TRUE, ![o].wasConnected = TRUE]
            /\ servers' = [servers EXCEPT ![i] = o]
            /\ task' = [task EXCEPT ![k].pc = "tools"]
            /\ UNCHANGED <<isInitialized, nInitialized>>
  /\ UNCHANGED <<upstream, kind, answers, tools, resources, prompts, calls, ncall,
                 lastCall, known,
                 nshut, now>>

\* initializeServerCapabilities, resumed after `await tools/list`.
listTools(k, out) ==
  LET i == task[k].idx IN
  /\ task[k].pc = "tools"
  /\ out \in Outcomes
  /\ IF out = "fail"
       THEN /\ initializeLoop(k, i + 1, task, objs)
            /\ UNCHANGED tools
       ELSE /\ tools' = IF out = "result"
                          THEN registerAll(tools, i, UpstreamTools(i))
                          ELSE tools
            /\ task' = [task EXCEPT ![k].pc = "resources"]
            /\ UNCHANGED <<isInitialized, nInitialized, objs>>
  /\ UNCHANGED <<upstream, kind, answers, servers, resources, prompts, calls, ncall,
                 lastCall, known,
                 nshut, now>>

\* ... after `await resources/list`.
listResources(k, out) ==
  LET i == task[k].idx IN
  /\ task[k].pc = "resources"
  /\ out \in Outcomes
  /\ IF out = "fail"
       THEN /\ initializeLoop(k, i + 1, task, objs)
            /\ UNCHANGED resources
       ELSE /\ resources' = IF out = "result"
                              THEN registerAll(resources, i, UpstreamResources(i))
                              ELSE resources
            /\ task' = [task EXCEPT ![k].pc = "prompts"]
            /\ UNCHANGED <<isInitialized, nInitialized, objs>>
  /\ UNCHANGED <<upstream, kind, answers, servers, tools, prompts, calls, ncall,
                 lastCall, known,
                 nshut, now>>

\* ... after `await prompts/list`; connectToServer then returns to the loop.
listPrompts(k, out) ==
  LET i == task[k].idx IN
  /\ task[k].pc = "prompts"
  /\ out \in Outcomes
  /\ prompts' = IF out = "result"
                  THEN registerAll(prompts, i, UpstreamPrompts(i))
                  ELSE prompts
  /\ initializeLoop(k, i + 1, task, objs)
  /\ UNCHANGED <<upstream, kind, answers, servers, tools, resources, calls, ncall,
                 lastCall, known,
                 nshut, now>>

\* --------------------------------------------------------------- shutdown
\* The loop body of shutdown() for one entry of this.servers.
shutdownServer(i, ob) ==
  [ob EXCEPT !.connected = FALSE,
             !.proc = IF kind[i] = "command" /\ ob.proc = "running"
                        THEN "killed" ELSE ob.proc]

\* shutdown that kills the processes and leaves the maps and flags as they are.
shutdown_keepsRegistries ==
  /\ nshut' = nshut + 1
  /\ objs' = [o \in ObjIds |->
               IF servers[o[2]] = o /\ kind[o[2]] = "command" /\ objs[o].proc = "running"
                 THEN [objs[o] EXCEPT !.proc = "killed"] ELSE objs[o]]
  /\ task' = disturb(task)
  /\ known' = {tools[j].key : j \in 1..Len(tools)}
  /\ UNCHANGED <<upstream, kind, answers, isInitialized, servers, tools, resources,
                 prompts, calls, ncall, lastCall, nInitialized, now>>

\* shutdown that leaves this.isInitialized as it is.
shutdown_leavesInitialized ==
  /\ nshut' = nshut + 1
  /\ objs' = [o \in ObjIds |->
               IF servers[o[2]] = o THEN shutdownServer(o[2], objs[o]) ELSE objs[o]]
  /\ servers' = [i \in Srv |-> NoObj]
  /\ tools' = <<>>
  /\ resources' = <<>>
  /\ prompts' = <<>>
  /\ task' = disturb(task)
  /\ known' = {tools[j].key : j \in 1..Len(tools)}
  /\ UNCHANGED <<upstream, kind, answers, isInitialized, calls, ncall, lastCall,
                 nInitialized, now>>

shutdown ==
  /\ nshut' = nshut + 1
  /\ objs' = [o \in ObjIds |->
               IF servers[o[2]] = o THEN shutdownServer(o[2], objs[o]) ELSE objs[o]]
  /\ servers' = [i \in Srv |-> NoObj]
  /\ tools' = <<>>
  /\ resources' = <<>>
  /\ prompts' = <<>>
  /\ isInitialized' = FALSE
  /\ task' = disturb(task)
  /\ known' = {tools[j].key : j \in 1..Len(tools)}
  /\ UNCHANGED <<upstream, kind, answers, calls, ncall, lastCall, nInitialized, now>>

\* server.process.on('exit'): connected = false, 'server-disconnected' emitted.
processExit(o) ==
  /\ objs[o].proc \in {"running", "killed"}
  /\ objs' = [objs EXCEPT ![o].proc = "exited", ![o].connected = FALSE]
  /\ UNCHANGED <<upstream, kind, answers, isInitialized, servers, tools, resources, prompts,
                 task, calls, ncall, lastCall, known, nshut, nInitialized, now>>

\* --------------------------------------------------------------- callTool
NoTool == [key |-> <<>>, serverId |-> 0, name |-> <<>>]

\* The part of a name after its last '/'.
afterLastSlash(s) ==
  IF \E j \in 1..Len(s) : s[j] = "/"
    THEN SubSeq(s, 1 + CHOOSE j \in 1..Len(s) :
                        s[j] = "/" /\ \A h \in (j + 1)..Len(s) : s[h] # "/",
                Len(s))
    ELSE s

\* findTool with the lookups swapped: the suffix scan on the bare name decides,
\* the exact key is not consulted.
findTool_bareNameFirst(toolName) ==
  IF \E j \in 1..Len(tools) : endsWith(tools[j].key, Slash \o afterLastSlash(toolName))
    THEN tools[CHOOSE j \in 1..Len(tools) :
                 /\ endsWith(tools[j].key, Slash \o afterLastSlash(toolName))
                 /\ \A h \in 1..(j - 1) :
                      ~endsWith(tools[h].key, Slash \o afterLastSlash(toolName))]
    ELSE [key |-> <<>>, serverId |-> 0, name |-> <<>>]

\* this.tools.get(toolName), else the first entry, in Map order, whose key
\* ends with '/' + toolName.
findTool(toolName) ==
  IF MapHas(tools, toolName) THEN MapGet(tools, toolName)
  ELSE IF \E j \in 1..Len(tools) : endsWith(tools[j].key, Slash \o toolName)
    THEN tools[CHOOSE j \in 1..Len(tools) :
                 /\ endsWith(tools[j].key, Slash \o toolName)
                 /\ \A h \in 1..(j - 1) : ~endsWith(tools[h].key, Slash \o toolName)]
  ELSE NoTool

\* The target of callTool's request, or why it throws before sending.
callToolOutcome(toolName) ==
  LET tool == findTool(toolName) IN
  IF tool = NoTool THEN "notfound"
  ELSE IF servers[tool.serverId] = NoObj \/ ~objs[servers[tool.serverId]].connected
    THEN "unavailable"
  ELSE "sent"

NewCall(req, o, nm) ==
  [req |-> req, obj |-> o, tool |-> nm, id |-> now, status |-> "pending", settles |-> 0,
   timer |-> FALSE, late |-> FALSE]

\* sendCommand that files every handler under message id 1.
sendCommand_fixedId(req, o, nm) ==
  IF objs[o].proc = "none" \/ ~objs[o].connected
    THEN /\ calls' = Append(calls, [NewCall(req, o, nm) EXCEPT
                                      !.status = "rejected", !.settles = 1])
         /\ UNCHANGED objs
    ELSE /\ calls' = Append(calls, [NewCall(req, o, nm) EXCEPT !.timer = TRUE])
         /\ objs' = [objs EXCEPT ![o].handlers[1] = Len(calls) + 1]

\* sendCommand: rejects at once unless the server has a process and is
\* connected; else stores {resolve, reject} under the message id (message.id ||
\* Date.now()), arms the timeout timer and writes the line.
sendCommand(req, o, nm) ==
  IF objs[o].proc = "none" \/ ~objs[o].connected
    THEN /\ calls' = Append(calls, [NewCall(req, o, nm) EXCEPT
                                      !.status = "rejected", !.settles = 1])
         /\ UNCHANGED objs
    ELSE /\ calls' = Append(calls, [NewCall(req, o, nm) EXCEPT !.timer = TRUE])
         /\ objs' = [objs EXCEPT ![o].handlers[now] = Len(calls) + 1]

\* makeSSERequest: one POST with its timeout timer armed; the call stays
\* pending until the request settles.
makeSSERequest(req, o, nm) ==
  /\ calls' = Append(calls, [NewCall(req, o, nm) EXCEPT !.timer = TRUE])
  /\ UNCHANGED objs

\* callServerMethod: by server.type.
callServerMethod(req, o, nm) ==
  IF kind[o[2]] = "sse" THEN makeSSERequest(req, o, nm) ELSE sendCommand(req, o, nm)

callTool(toolName) ==
  LET tool == findTool(toolName)
      out == callToolOutcome(toolName) IN
  /\ ncall' = ncall + 1
  /\ lastCall' = [name |-> toolName, outcome |-> out]
  /\ IF out = "sent"
       THEN callServerMethod(toolName, servers[tool.serverId], tool.name)
       ELSE UNCHANGED <<calls, objs>>
  /\ UNCHANGED <<upstream, kind, answers, isInitialized, servers, tools, resources, prompts,
                 task, known, nshut, nInitialized, now>>

\* What a caller of callTool may pass: qualified ids, bare names, an unknown name.
CallNames == {toolKey(i, E) : i \in Srv} \cup ToolNames \cup {Z}

\* The promise of call c is settled through its resolve or reject.
settle(cs, c, st) ==
  [cs EXCEPT ![c].settles = @ + 1,
             ![c].status = IF @ = "pending" THEN st ELSE @]

\* An 'sse' tools/call request settles, its timer cleared: the body parsed
\* (result or error member alike resolve), or the request failed.
toolCallResponse(c, out) ==
  /\ c \in 1..Len(calls)
  /\ kind[calls[c].obj[2]] = "sse"
  /\ calls[c].status = "pending"
  /\ out \in Outcomes
  /\ calls' = [settle(calls, c, IF out = "fail" THEN "rejected"
                                ELSE IF out = "rpcerror" THEN "resolved_error"
                                ELSE "resolved")
                EXCEPT ![c].timer = FALSE]
  /\ UNCHANGED <<upstream, kind, answers, isInitialized, servers, objs, tools, resources,
                 prompts, task, ncall, lastCall, known, nshut, nInitialized, now>>

\* The 'response' event of an 'sse' request with a status below 400: the
\* headers are in, clearTimeout(timeout) runs, and the body is still to come.
sseResponseHeaders(c) ==
  /\ c \in 1..Len(calls)
  /\ kind[calls[c].obj[2]] = "sse"
  /\ calls[c].status = "pending"
  /\ calls[c].timer
  /\ calls' = [calls EXCEPT ![c].timer = FALSE]
  /\ UNCHANGED <<upstream, kind, answers, isInitialized, servers, objs, tools, resources,
                 prompts, task, ncall, lastCall, known, nshut, nInitialized, now>>

\* The setTimeout callback of makeSSERequest: the request is aborted and the
\* caller rejected.
sseTimeout(c) ==
  /\ c \in 1..Len(calls)
  /\ kind[calls[c].obj[2]] = "sse"
  /\ calls[c].timer
  /\ calls' = [settle(calls, c, "timeout") EXCEPT ![c].timer = FALSE]
  /\ UNCHANGED <<upstream, kind, answers, isInitialized, servers, objs, tools, resources,
                 prompts, task, ncall, lastCall, known, nshut, nInitialized, now>>

\* ------------------------------------------------------ process transport
\* handleJSONRPCMessage for a parsed line of server o's stdout, as a function of
\* the connection objects ob and the calls cs: id 0 stands for a message without
\* id. A pending id is removed and its caller rejected (error member) or
\* resolved; anything else is emitted as 'server-message' (emit).
handleJSONRPCMessageOn(ob, cs, o, id, err) ==
  LET lateCalls(xs) ==
        [c \in 1..Len(xs) |->
           IF cs[c].obj = o /\ cs[c].id = id /\ cs[c].status # "pending"
             THEN [xs[c] EXCEPT !.late = TRUE] ELSE xs[c]] IN
  IF id # 0 /\ ob[o].handlers[id] # NoCall
    THEN [objs |-> [ob EXCEPT ![o].handlers[id] = NoCall],
          calls |-> lateCalls(settle(cs, ob[o].handlers[id],
                                     IF err THEN "rejected" ELSE "resolved")),
          emit |-> FALSE]
    ELSE [objs |-> ob, calls |-> lateCalls(cs), emit |-> TRUE]

\* A parsed line of server o's stdout is handled.
handleJSONRPCMessage(o, id, err) ==
  /\ objs[o].proc # "none"
  /\ objs' = handleJSONRPCMessageOn(objs, calls, o, id, err).objs
  /\ calls' = handleJSONRPCMessageOn(objs, calls, o, id, err).calls
  /\ UNCHANGED <<upstream, kind, answers, isInitialized, servers, tools, resources, prompts,
                 task, ncall, lastCall, known, nshut, nInitialized, now>>

\* ------------------------------------------------------------------ framing
\* Bytes of a process's stdout, one string per byte: "C3" and "A9" are the two
\* bytes of the UTF-8 encoding of U+00E9. Characters of decoded text: "e9" is
\* U+00E9 and "fffd" the replacement character.
NL == "\n"

\* data.toString(): the chunk's bytes decoded as UTF-8 on their own; a lead
\* byte without its continuation byte, or a continuation byte without its lead
\* byte, decodes to the replacement character.
RECURSIVE toString(_)
toString(data) ==
  IF data = <<>> THEN <<>>
  ELSE IF Head(data) = "C3"
    THEN IF Len(data) >= 2 /\ data[2] = "A9"
           THEN <<"e9">> \o toString(SubSeq(data, 3, Len(data)))
           ELSE <<"fffd">> \o toString(Tail(data))
  ELSE IF Head(data) = "A9" THEN <<"fffd">> \o toString(Tail(data))
  ELSE <<Head(data)>> \o toString(Tail(data))

\* text.split('\n'): the pieces between newlines, the last one unterminated.
RECURSIVE split(_)
split(text) ==
  IF \A j \in 1..Len(text) : text[j] # NL THEN <<text>>
  ELSE LET j == CHOOSE h \in 1..Len(text) :
                  text[h] = NL /\ \A g \in 1..(h - 1) : text[g] # NL IN
       <<SubSeq(text, 1, j - 1)>> \o split(SubSeq(text, j + 1, Len(text)))

\* line.trim()
RECURSIVE trim(_)
trim(line) ==
  IF line = <<>> THEN <<>>
  ELSE IF Head(line) = " " THEN trim(Tail(line))
  ELSE IF line[Len(line)] = " " THEN trim(SubSeq(line, 1, Len(line) - 1))
  ELSE line

\* JSON.parse(line) for the lines a server may write: "{", an optional id
\* digit, the characters of a string member, "}" (blanks around it allowed);
\* id 0 stands for a message without id. Anything else throws (ok = FALSE).
JSONparse(line) ==
  LET t == trim(line)
      inner == SubSeq(t, 2, Len(t) - 1)
      hasId == inner # <<>> /\ inner[1] \in {"1", "2"}
      text == IF hasId THEN Tail(inner) ELSE inner IN
  IF /\ Len(t) >= 2
     /\ t[1] = "{"
     /\ t[Len(t)] = "}"
     /\ \A j \in 1..Len(text) : text[j] \in {"e9", "fffd"}
    THEN [ok |-> TRUE, id |-> IF ~hasId THEN 0 ELSE IF inner[1] = "1" THEN 1 ELSE 2,
          text |-> text]
    ELSE [ok |-> FALSE, id |-> 0, text |-> <<>>]

\* The loop over the complete lines that stops at the first line that fails to
\* parse.
RECURSIVE dispatchLines_stopsAtInvalid(_, _, _)
dispatchLines_stopsAtInvalid(st, o, lines) ==
  IF lines = <<>> THEN st
  ELSE IF trim(Head(lines)) = <<>> THEN dispatchLines_stopsAtInvalid(st, o, Tail(lines))
  ELSE IF ~JSONparse(Head(lines)).ok THEN st
  ELSE LET m == JSONparse(Head(lines))
           r == handleJSONRPCMessageOn(st.objs, st.calls, o, m.id, FALSE) IN
       dispatchLines_stopsAtInvalid(
         [st EXCEPT !.objs = r.objs, !.calls = r.calls,
                    !.dispatched = Append(@, [id |-> m.id, text |-> m.text])],
         o, Tail(lines))

\* for (const line of lines): a blank line is skipped, a line that fails to
\* parse is logged, any other is handed to handleJSONRPCMessage.
RECURSIVE dispatchLines(_, _, _)
dispatchLines(st, o, lines) ==
  IF lines = <<>> THEN st
  ELSE IF trim(Head(lines)) = <<>> THEN dispatchLines(st, o, Tail(lines))
  ELSE IF ~JSONparse(Head(lines)).ok THEN dispatchLines(st, o, Tail(lines))
  ELSE LET m == JSONparse(Head(lines))
           r == handleJSONRPCMessageOn(st.objs, st.calls, o, m.id, FALSE) IN
       dispatchLines(
         [st EXCEPT !.objs = r.objs, !.calls = r.calls,
                    !.dispatched = Append(@, [id |-> m.id, text |-> m.text])],
         o, Tail(lines))

\* The stdout 'data' listener of server o, as a function of st = [buffer, objs,
\* calls, dispatched]: buffer += data.toString(); the text is split on
\* newlines, the last piece kept as the buffer, the others dispatched.
onData(st, o, data) ==
  LET lines == split(st.buffer \o toString(data)) IN
  dispatchLines([st EXCEPT !.buffer = lines[Len(lines)]], o,
                SubSeq(lines, 1, Len(lines) - 1))

\* The connection object whose stdout SpecFrame follows.
FrameObj == <<1, 1>>

\* One read of FrameObj's stdout delivers the next n bytes.
stdoutData(n) ==
  LET st == onData([buffer |-> stdout.buffer, objs |-> objs, calls |-> calls,
                    dispatched |-> stdout.dispatched],
                   FrameObj, SubSeq(stdout.rest, 1, n)) IN
  /\ n \in 1..Len(stdout.rest)
  /\ stdout' = [stdout EXCEPT !.rest = SubSeq(@, n + 1, Len(@)),
                              !.buffer = st.buffer,
                              !.dispatched = st.dispatched]
  /\ objs' = st.objs
  /\ calls' = st.calls
  /\ UNCHANGED <<upstream, kind, answers, isInitialized, servers, tools, resources, prompts,
                 task, ncall, lastCall, known, nshut, nInitialized, now>>

\* commandTimeout that rejects the caller and leaves the table entry in place.
commandTimeout_keepsEntry(c) ==
  /\ c \in 1..Len(calls)
  /\ calls[c].timer
  /\ now > calls[c].id
  /\ calls' = [(IF objs[calls[c].obj].handlers[calls[c].id] # 0
                  THEN [calls EXCEPT ![c].settles = @ + 1,
                          ![c].status = IF @ = "pending" THEN "timeout" ELSE @]
                  ELSE calls)
                EXCEPT ![c].timer = FALSE]
  /\ UNCHANGED <<upstream, kind, answers, isInitialized, servers, objs, tools,
                 resources, prompts, task, ncall, lastCall, known, nshut,
                 nInitialized, now>>

\* The setTimeout callback of sendCommand for call c: if the table holds the
\* call's message id, the entry is deleted and c's reject is called.
commandTimeout(c) ==
  LET o == calls[c].obj
      id == calls[c].id IN
  /\ c \in 1..Len(calls)
  /\ calls[c].timer
  /\ now > id
  /\ IF objs[o].handlers[id] # NoCall
       THEN /\ objs' = [objs EXCEPT ![o].handlers[id] = NoCall]
            /\ calls' = [settle(calls, c, "timeout") EXCEPT ![c].timer = FALSE]
       ELSE /\ UNCHANGED objs
            /\ calls' = [calls EXCEPT ![c].timer = FALSE]
  /\ UNCHANGED <<upstream, kind, answers, isInitialized, servers, tools, resources, prompts,
                 task, ncall, lastCall, known, nshut, nInitialized, now>>

\* Date.now() moves on.
tick ==
  /\ now < MaxClock
  /\ now' = now + 1
  /\ UNCHANGED <<upstream, kind, answers, isInitialized, servers, objs, tools, resources,
                 prompts, task, calls, ncall, lastCall, known, nshut, nInitialized>>

\* --------------------------------------------------------- MCPIntegration
\* registerTools(): the flattened registry is cleared and refilled from the
\* manager's tools in Map order, keyed by tool.name; each entry keeps the
\* owning server and the registry key its execute() passes to callTool.
\* registerTools whose execute() passes the bare tool name to callTool.
RECURSIVE registerToolsFrom_bindsBareName(_, _)
registerToolsFrom_bindsBareName(m, ts) ==
  IF ts = <<>> THEN m
  ELSE registerToolsFrom_bindsBareName(MapSet(m, [key |-> Head(ts).name,
                                                  server |-> Head(ts).serverId,
                                                  toolKey |-> Head(ts).name]),
                                       Tail(ts))

RECURSIVE registerToolsFrom(_, _)
registerToolsFrom(m, ts) ==
  IF ts = <<>> THEN m
  ELSE registerToolsFrom(MapSet(m, [key |-> Head(ts).name,
                                    server |-> Head(ts).serverId,
                                    toolKey |-> Head(ts).key]),
                         Tail(ts))

registerTools(ts) == registerToolsFrom(<<>>, ts)

\* The integration's part of a step of its manager. When the manager emits
\* 'initialized' the listener runs updateToolRegistry(); the awaited
\* mcpManager.initialize() then returns and MCPIntegration.initialize() goes on:
\* registerTools(), isInitialized = true.
integrationObserves ==
  mcpIntegration' =
    IF nInitialized' # nInitialized
      THEN [mcpIntegration EXCEPT !.toolRegistry = registerTools(tools'),
                                  !.isInitialized = TRUE,
                                  !.pc = "returned"]
      ELSE mcpIntegration

\* MCPIntegration.initialize() on an integration that is not initialized:
\* loadMCPConfig() throws (configOk false) and the call rethrows, or the manager
\* is created, the listeners and IPC handlers are set up and
\* mcpManager.initialize() is called and awaited.
integrationInitialize(configOk) ==
  /\ mcpIntegration.pc = "idle"
  /\ ~mcpIntegration.isInitialized
  /\ IF configOk
       THEN /\ initialize(1)
            /\ mcpIntegration' =
                 IF nInitialized' # nInitialized
                   THEN [mcpIntegration EXCEPT !.mcpManager = TRUE,
                                               !.toolRegistry = registerTools(tools'),
                                               !.isInitialized = TRUE,
                                               !.pc = "returned"]
                   ELSE [mcpIntegration EXCEPT !.mcpManager = TRUE, !.pc = "awaitInit"]
       ELSE /\ mcpIntegration' = [mcpIntegration EXCEPT !.pc = "threw"]
            /\ UNCHANGED <<upstream, kind, answers, isInitialized, servers, objs, tools,
                           resources, prompts, task, calls, ncall, lastCall, known,
                           nshut, nInitialized, now>>

\* The 'mcp-refresh' handler, which runs within one task of the event loop (its
\* awaits are on settled promises). Without a manager it returns false. Else
\* mcpManager.shutdown(), then this.initialize(): on an integration whose
\* isInitialized is true that call returns at once and the handler returns
\* true. On one whose initialize() is still awaiting its manager, a new
\* MCPClientManager replaces this.mcpManager, setupIPCHandlers() throws on
\* registering 'mcp-get-tools' a second time (ipcMain.handle), and the handler
\* returns false; the replaced manager goes on initializing, out of reach.
mcpRefresh ==
  IF ~mcpIntegration.mcpManager
    THEN /\ mcpIntegration' = [mcpIntegration EXCEPT !.refreshes = @ + 1,
                                                     !.refreshed = "false",
                                                     !.refreshing = TRUE]
         /\ UNCHANGED <<upstream, kind, answers, isInitialized, servers, objs, tools,
                        resources, prompts, task, calls, ncall, lastCall, known,
                        nshut, nInitialized, now>>
    ELSE IF mcpIntegration.isInitialized
      THEN /\ shutdown
           /\ mcpIntegration' = [mcpIntegration EXCEPT !.refreshes = @ + 1,
                                                       !.refreshed = "true",
                                                       !.refreshing = TRUE]
      ELSE /\ nshut' = nshut + 1
           /\ known' = {tools[j].key : j \in 1..Len(tools)}
           /\ isInitialized' = FALSE
           /\ servers' = [i \in Srv |-> NoObj]
           /\ objs' = [o \in ObjIds |-> FreshObj]
           /\ tools' = <<>>
           /\ resources' = <<>>
           /\ prompts' = <<>>
           /\ task' = [k \in Inv |-> IdleTask]
           /\ mcpIntegration' = [mcpIntegration EXCEPT !.refreshes = @ + 1,
                                                       !.refreshed = "false",
                                                       !.refreshing = TRUE,
                                                       !.pc = "awaitOld"]
           /\ UNCHANGED <<upstream, kind, answers, calls, ncall, lastCall,
                          nInitialized, now>>

\* The reply of the 'mcp-refresh' invocation reaches the renderer.
mcpRefreshReply ==
  /\ mcpIntegration.refreshing
  /\ mcpIntegration' = [mcpIntegration EXCEPT !.refreshing = FALSE]
  /\ UNCHANGED <<upstream, kind, answers, isInitialized, servers, objs, tools,
                 resources, prompts, task, calls, ncall, lastCall, known, nshut,
                 nInitialized, now>>

\* The replaced manager ends its initialize(): its 'initialized' listener runs
\* updateToolRegistry() and the MCPIntegration.initialize() that awaited it goes
\* on, both reading this.mcpManager, the manager that replaced it.
integrationOldInitialized ==
  /\ mcpIntegration.pc = "awaitOld"
  /\ mcpIntegration' = [mcpIntegration EXCEPT !.toolRegistry = registerTools(tools),
                                              !.isInitialized = TRUE,
                                              !.pc = "returned"]
  /\ UNCHANGED <<upstream, kind, answers, isInitialized, servers, objs, tools,
                 resources, prompts, task, calls, ncall, lastCall, known, nshut,
                 nInitialized, now>>

\* The 'mcp-call-tool' handler: throws without a manager, else
\* mcpManager.callTool(toolName, args), logged either way.
mcpCallTool(toolName) ==
  IF ~mcpIntegration.mcpManager
    THEN /\ ncall' = ncall + 1
         /\ lastCall' = [name |-> toolName, outcome |-> "nomanager"]
         /\ UNCHANGED <<upstream, kind, answers, isInitialized, servers, objs, tools,
                        resources, prompts, task, calls, known, nshut, nInitialized,
                        now>>
    ELSE callTool(toolName)

\* getHighPriorityTools that also moves the allow-listed servers' tools to the
\* front of the manager's registry.
getHighPriorityTools_reordersTools(highPriorityServers) ==
  /\ mcpIntegration' =
       [mcpIntegration EXCEPT !.highPriority =
          SelectSeq(mcpIntegration.toolRegistry,
                    LAMBDA e : e.server \in highPriorityServers)]
  /\ tools' = SelectSeq(tools, LAMBDA e : e.serverId \in highPriorityServers)
                \o SelectSeq(tools, LAMBDA e : e.serverId \notin highPriorityServers)
  /\ UNCHANGED <<upstream, kind, answers, isInitialized, servers, objs, resources,
                 prompts, task, calls, ncall, lastCall, known, nshut, nInitialized, now>>

\* getHighPriorityTools(): the entries of the flattened registry whose server
\* is in the allow-list, in registry order; nothing is written.
getHighPriorityTools(highPriorityServers) ==
  /\ mcpIntegration' =
       [mcpIntegration EXCEPT !.highPriority =
          SelectSeq(mcpIntegration.toolRegistry,
                    LAMBDA e : e.server \in highPriorityServers)]
  /\ UNCHANGED <<upstream, kind, answers, isInitialized, servers, objs, tools, resources,
                 prompts, task, calls, ncall, lastCall, known, nshut, nInitialized, now>>

\* executeTool(toolName): getTool looks the name up in the flattened registry;
\* without an entry it throws, else the entry's execute() calls
\* mcpManager.callTool with the registry key bound at registration.
executeTool(toolName) ==
  IF ~MapHas(mcpIntegration.toolRegistry, toolName)
    THEN /\ ncall' = ncall + 1
         /\ lastCall' = [name |-> toolName, outcome |-> "noentry"]
         /\ UNCHANGED <<upstream, kind, answers, isInitialized, servers, objs, tools,
                        resources, prompts, task, calls, known, nshut, nInitialized, now>>
    ELSE callTool(MapGet(mcpIntegration.toolRegistry, toolName).toolKey)

\* ------------------------------------------- ProviderRouter, ResponseCache
\* this.providers of the constructor.
Providers == {"openai", "anthropic", "vertex"}

\* RoutingPolicy's costLimit, in cents (0.10).
costLimit == 10

\* The cache's ttl in clock ticks, its maxSize and a stored response's
\* stats.size in units of one response.
Ttl == 1

MaxSize == 2

ResponseSize == 1

maxHistorySize == 1000

\* x || d on a numeric property: absent and 0 are both falsy.
orDefault(x, d) == IF x \in {NoNumber, 0} THEN d ELSE x

\* ResponseCache._generateKey: the sha256 of the normalised request, one key
\* per normalised request. The temperature is in tenths.
_generateKey(params) ==
  <<params.provider, params.model, params.prompt,
    orDefault(params.options.temperature, 7),
    orDefault(params.options.max_tokens, 1000)>>

\* ResponseCache.delete.
delete(index, key) == SelectSeq(index, LAMBDA e : e.key # key)

\* ResponseCache.get: the entry's response marked cached, or null; an expired
\* entry is deleted. The entry's timestamp is left as set() wrote it.
get(index, params, time) ==
  LET key == _generateKey(params)
  IN IF ~MapHas(index, key)
       THEN [index |-> index, hit |-> FALSE, value |-> NoResponse]
     ELSE IF time - MapGet(index, key).timestamp > Ttl
       THEN [index |-> delete(index, key), hit |-> FALSE, value |-> NoResponse]
     ELSE [index |-> index, hit |-> TRUE,
           value |-> [MapGet(index, key).file EXCEPT !.cached = TRUE]]

\* Array.prototype.sort by timestamp: stable, oldest first.
RECURSIVE sortByTimestamp(_)
sortByTimestamp(entries) ==
  IF entries = <<>> THEN <<>>
  ELSE LET e == entries[Len(entries)]
           front == sortByTimestamp(SubSeq(entries, 1, Len(entries) - 1))
           older == SelectSeq(front, LAMBDA x : x.timestamp <= e.timestamp)
           newer == SelectSeq(front, LAMBDA x : x.timestamp > e.timestamp)
       IN older \o <<e>> \o newer

RECURSIVE totalSizeOf(_)
totalSizeOf(index) ==
  IF index = <<>> THEN 0 ELSE Head(index).size + totalSizeOf(Tail(index))

\* The loop of _evictIfNeeded: delete in order until under 80% of maxSize.
RECURSIVE evictLoop(_, _, _, _)
evictLoop(index, entries, totalSize, freedSpace) ==
  IF entries = <<>> THEN index
  ELSE LET freed == freedSpace + Head(entries).size
           rest  == delete(index, Head(entries).key)
       IN IF 10 * (totalSize - freed) < 8 * MaxSize
            THEN rest
            ELSE evictLoop(rest, Tail(entries), totalSize, freed)

\* ResponseCache._evictIfNeeded.
_evictIfNeeded(index) ==
  IF totalSizeOf(index) < MaxSize THEN index
  ELSE evictLoop(index, sortByTimestamp(index), totalSizeOf(index), 0)

\* ResponseCache.set: evict, write the file, index it under the key.
set(index, params, response, time) ==
  MapSet(_evictIfNeeded(index),
         [key |-> _generateKey(params), timestamp |-> time, size |-> ResponseSize,
          provider |-> params.provider, model |-> params.model, file |-> response])

\* RoutingPolicy._defaultRouting; budgets in cents.
_defaultRouting(request) ==
  LET budget == IF request.budget = NoNumber THEN costLimit ELSE request.budget
  IN IF request.promptLength > 8000
       THEN [provider |-> "anthropic", model |-> "claude-3-5-sonnet-20241022",
             reason |-> "long context"]
     ELSE IF request.requiresReasoning /\ budget >= 5
       THEN [provider |-> "openai", model |-> "gpt-4o", reason |-> "reasoning task"]
     ELSE IF request.requiresSpeed /\ budget < 2
       THEN [provider |-> "anthropic", model |-> "claude-3-5-haiku-20241022",
             reason |-> "speed + low budget"]
     ELSE IF request.requiresSpeed
       THEN [provider |-> "vertex", model |-> "gemini-1.5-flash",
             reason |-> "speed required"]
     ELSE [provider |-> "openai", model |-> "gpt-4o-mini", reason |-> "default"]

\* RoutingPolicy.selectProvider with the rules of the default configuration
\* (config.routingRules || []): no rule matches.
selectProvider(request) == _defaultRouting(request)

\* ProviderRouter._routeRequest; Math.ceil(length / 4) is the token estimate.
_routeRequest(params) ==
  IF params.provider # Undefined /\ params.model # Undefined
    THEN [provider |-> params.provider, model |-> params.model,
          reason |-> "explicit selection"]
    ELSE selectProvider([promptLength |-> (params.prompt.length + 3) \div 4,
                         requiresReasoning |-> params.context.requiresReasoning,
                         requiresSpeed |-> params.context.requiresSpeed,
                         budget |-> params.context.budget])

\* ProviderRouter._recordRequest.
_recordRequest(history, request, time) ==
  LET pushed == Append(history, [request |-> request, timestamp |-> time])
  IN IF Len(pushed) > maxHistorySize THEN Tail(pushed) ELSE pushed

\* The params cache.get is given by complete(): the caller's provider, model.
lookupParams(params) == params

\* The params cache.set is given by complete(): the routing's provider, model.
storeParams(params, routing) ==
  [params EXCEPT !.provider = routing.provider, !.model = routing.model]

\* ProviderRouter.complete(params), the caller awaiting it; out is what
\* provider.complete does: "ok" resolves, "fail" rejects.
complete(params, out) ==
  LET got      == get(router.index, lookupParams(params), router.now)
      routing  == _routeRequest(params)
      response == [routing |-> routing, prompt |-> params.prompt, cached |-> FALSE]
      entry(cached, success) ==
        [provider |-> params.provider, model |-> params.model,
         prompt |-> params.prompt, options |-> params.options,
         context |-> params.context, cached |-> cached, success |-> success]
  IN IF got.hit
       THEN router' = [router EXCEPT
              !.requestHistory = _recordRequest(@, entry(TRUE, TRUE), router.now),
              !.last = [params |-> params, response |-> got.value,
                        called |-> FALSE, threw |-> FALSE]]
     ELSE IF routing.provider \notin Providers \/ out = "fail"
       THEN router' = [router EXCEPT
              !.index = got.index,
              !.requestHistory = _recordRequest(@, entry(FALSE, FALSE), router.now),
              !.last = [params |-> params, response |-> NoResponse,
                        called |-> routing.provider \in Providers, threw |-> TRUE]]
     ELSE router' = [router EXCEPT
              !.index = set(got.index, storeParams(params, routing), response,
                            router.now),
              !.requestHistory =
                 _recordRequest(@, [entry(FALSE, TRUE) EXCEPT
                                      !.provider = routing.provider,
                                      !.model = routing.model], router.now),
              !.last = [params |-> params, response |-> response,
                        called |-> TRUE, threw |-> FALSE]]

\* Date.now() advances between two requests.
routerTick == router' = [router EXCEPT !.now = @ + 1]

\* ---------------------------------------------------------- specifications
Next ==
  \/ \E k \in Inv : initialize(k) /\ UNCHANGED <<mcpIntegration, stdout, router>>
  \/ \E k \in Inv, out \in Outcomes :
       createSSEConnection(k, out) /\ UNCHANGED <<mcpIntegration, stdout, router>>
  \/ \E k \in Inv, out \in Outcomes : listTools(k, out) /\ UNCHANGED <<mcpIntegration, stdout, router>>
  \/ \E k \in Inv, out \in Outcomes : listResources(k, out) /\ UNCHANGED <<mcpIntegration, stdout, router>>
  \/ \E k \in Inv, out \in Outcomes : listPrompts(k, out) /\ UNCHANGED <<mcpIntegration, stdout, router>>
  \/ nshut < MaxShutdowns /\ shutdown /\ UNCHANGED <<mcpIntegration, stdout, router>>
  \/ \E o \in ObjIds : processExit(o) /\ UNCHANGED <<mcpIntegration, stdout, router>>

Spec == Init /\ [][Next]_vars

\* A host that awaits each initialize() before it calls initialize() again, and
\* calls tools at any time.
NextCall ==
  \/ \E k \in Inv :
       /\ \A h \in Inv : ~Active(task[h])
       /\ initialize(k)
       /\ UNCHANGED <<mcpIntegration, stdout, router>>
  \/ \E k \in Inv, out \in Outcomes :
       createSSEConnection(k, out) /\ UNCHANGED <<mcpIntegration, stdout, router>>
  \/ \E k \in Inv, out \in Outcomes : listTools(k, out) /\ UNCHANGED <<mcpIntegration, stdout, router>>
  \/ \E k \in Inv, out \in Outcomes : listResources(k, out) /\ UNCHANGED <<mcpIntegration, stdout, router>>
  \/ \E k \in Inv, out \in Outcomes : listPrompts(k, out) /\ UNCHANGED <<mcpIntegration, stdout, router>>
  \/ nshut < MaxCallShutdowns /\ shutdown /\ UNCHANGED <<mcpIntegration, stdout, router>>
  \/ \E o \in ObjIds : processExit(o) /\ UNCHANGED <<mcpIntegration, stdout, router>>
  \/ \E nm \in CallNames :
       ncall < MaxCalls /\ callTool(nm) /\ UNCHANGED <<mcpIntegration, stdout, router>>
  \/ \E c \in DOMAIN calls, out \in Outcomes :
       toolCallResponse(c, out) /\ UNCHANGED <<mcpIntegration, stdout, router>>
  \/ \E c \in DOMAIN calls : sseResponseHeaders(c) /\ UNCHANGED <<mcpIntegration, stdout, router>>
  \/ \E c \in DOMAIN calls : sseTimeout(c) /\ UNCHANGED <<mcpIntegration, stdout, router>>

SpecCall == Init /\ [][NextCall]_vars

\* The manager as createCommandConnection leaves it at line 442 for every
\* configured command server, discovery done: connected, process running.
ConnectedManager ==
  /\ upstream = [i \in Srv |-> IF i = 1 THEN <<NE, E>> ELSE <<E>>]
  /\ kind = [i \in Srv |-> "command"]
  /\ answers = [i \in Srv |-> TRUE]
  /\ isInitialized = TRUE
  /\ servers = [i \in Srv |-> <<1, i>>]
  /\ objs = [o \in ObjIds |->
              IF o[1] = 1
                THEN [FreshObj EXCEPT !.connected = TRUE, !.proc = "running",
                                     !.wasConnected = TRUE]
                ELSE FreshObj]
  /\ tools = registerAll(registerAll(<<>>, 1, <<NE, E>>), 2, <<E>>)
  /\ resources = registerAll(registerAll(<<>>, 1, UpstreamResources(1)),
                             2, UpstreamResources(2))
  /\ prompts = registerAll(registerAll(<<>>, 1, UpstreamPrompts(1)),
                           2, UpstreamPrompts(2))
  /\ task = [k \in Inv |-> IF k = 1
                             THEN [IdleTask EXCEPT !.pc = "returned", !.ran = TRUE]
                             ELSE IdleTask]
  /\ calls = <<>>
  /\ ncall = 0
  /\ lastCall = NoLastCall
  /\ known = {}
  /\ nshut = 0
  /\ nInitialized = 1
  /\ now = 1
  /\ mcpIntegration = FreshIntegration

InitConn == ConnectedManager /\ stdout = NoStdout /\ router = FreshRouter

NextConn ==
  \/ \E nm \in CallNames :
       ncall < MaxConnCalls /\ callTool(nm) /\ UNCHANGED <<mcpIntegration, stdout, router>>
  \/ \E o \in ObjIds, id \in 0..MaxClock, err \in BOOLEAN :
       handleJSONRPCMessage(o, id, err) /\ UNCHANGED <<mcpIntegration, stdout, router>>
  \/ \E c \in DOMAIN calls : commandTimeout(c) /\ UNCHANGED <<mcpIntegration, stdout, router>>
  \/ \E o \in ObjIds : processExit(o) /\ UNCHANGED <<mcpIntegration, stdout, router>>
  \/ nshut < MaxShutdowns /\ shutdown /\ UNCHANGED <<mcpIntegration, stdout, router>>
  \/ tick /\ UNCHANGED <<mcpIntegration, stdout, router>>

SpecConn == InitConn /\ [][NextConn]_vars

\* The lines a server process may write: a response to id 1, the same with a
\* two-byte character in its result, a notification, a line that is not JSON,
\* a blank line.
LineItems == { <<"{", "1", "}">>, <<"{", "1", "C3", "A9", "}">>, <<"{", "}">>,
               <<"x">>, <<" ">> }

\* What a process may have written after its last newline.
Tails == { <<>>, <<"{", "1">> }

RECURSIVE joinLines(_)
joinLines(ls) ==
  IF ls = <<>> THEN <<>> ELSE Head(ls) \o <<NL>> \o joinLines(Tail(ls))

Outputs ==
  {joinLines(ls) \o t : ls \in UNION {[1..k -> LineItems] : k \in 0..MaxLines},
                        t \in Tails}

\* The process transport with the stdout of one connected server followed byte
\* by byte: the process writes one of Outputs, delivered in reads of any sizes,
\* while the host calls a tool of that server.
InitFrame ==
  /\ ConnectedManager
  /\ router = FreshRouter
  /\ \E out \in Outputs :
       stdout = [output |-> out, rest |-> out, buffer |-> <<>>, dispatched |-> <<>>]

NextFrame ==
  \/ \E n \in 1..Len(stdout.rest) : stdoutData(n) /\ UNCHANGED <<mcpIntegration, router>>
  \/ /\ ncall < MaxFrameCalls
     /\ callTool(toolKey(1, E))
     /\ UNCHANGED <<mcpIntegration, stdout, router>>

SpecFrame == InitFrame /\ [][NextFrame]_vars

\* The application: MCPIntegration.initialize() once at start-up; from then on
\* the renderer invokes 'mcp-call-tool' and 'mcp-refresh', one refresh at a time.
\* The configuration file does not change: what loadMCPConfig() read once it
\* reads again.
NextInt ==
  \/ \E configOk \in BOOLEAN : integrationInitialize(configOk) /\ UNCHANGED <<stdout, router>>
  \/ \E k \in Inv, out \in Outcomes : createSSEConnection(k, out) /\ integrationObserves /\ UNCHANGED <<stdout, router>>
  \/ \E k \in Inv, out \in Outcomes : listTools(k, out) /\ integrationObserves /\ UNCHANGED <<stdout, router>>
  \/ \E k \in Inv, out \in Outcomes : listResources(k, out) /\ integrationObserves /\ UNCHANGED <<stdout, router>>
  \/ \E k \in Inv, out \in Outcomes : listPrompts(k, out) /\ integrationObserves /\ UNCHANGED <<stdout, router>>
  \/ \E o \in ObjIds : processExit(o) /\ UNCHANGED <<mcpIntegration, stdout, router>>
  \/ /\ mcpIntegration.pc # "idle"
     /\ ~mcpIntegration.refreshing
     /\ mcpIntegration.refreshes < MaxRefreshes
     /\ mcpRefresh
     /\ UNCHANGED <<stdout, router>>
  \/ mcpRefreshReply /\ UNCHANGED <<stdout, router>>
  \/ integrationOldInitialized /\ UNCHANGED <<stdout, router>>
  \/ \E nm \in CallNames :
       /\ mcpIntegration.pc # "idle"
       /\ ncall < MaxCalls
       /\ mcpCallTool(nm)
       /\ UNCHANGED <<mcpIntegration, stdout, router>>
  \/ \E c \in DOMAIN calls, out \in Outcomes :
       toolCallResponse(c, out) /\ UNCHANGED <<mcpIntegration, stdout, router>>
  \/ \E c \in DOMAIN calls : sseResponseHeaders(c) /\ UNCHANGED <<mcpIntegration, stdout, router>>
  \/ \E c \in DOMAIN calls : sseTimeout(c) /\ UNCHANGED <<mcpIntegration, stdout, router>>
  \/ \E nm \in ToolNames \cup {Z} :
       /\ mcpIntegration.pc # "idle"
       /\ ncall < MaxCalls
       /\ executeTool(nm)
       /\ UNCHANGED <<mcpIntegration, stdout, router>>
  \/ \E highPriorityServers \in SUBSET Srv :
       getHighPriorityTools(highPriorityServers) /\ UNCHANGED <<stdout, router>>

SpecInt == Init /\ [][NextInt]_vars

\* A host of the router: it leaves the MCP manager and integration alone.
routerOnly ==
  UNCHANGED <<upstream, kind, answers, isInitialized, servers, objs, tools, resources,
              prompts, task, calls, ncall, lastCall, known, nshut, nInitialized, now,
              mcpIntegration, stdout>>

\* Requests: the benchmark's short prompt, a prompt of more than 8000 tokens;
\* options absent or the benchmark's; the contexts of the benchmark scenarios
\* and one asking for speed on a low budget.
Prompts == {[text |-> "Hello, world!", length |-> 13],
            [text |-> "long document", length |-> 32004]}

OptionsSet == {[temperature |-> NoNumber, max_tokens |-> NoNumber],
               [temperature |-> NoNumber, max_tokens |-> 100]}

Contexts ==
  {[requiresReasoning |-> FALSE, requiresSpeed |-> FALSE, budget |-> NoNumber],
   [requiresReasoning |-> TRUE,  requiresSpeed |-> FALSE, budget |-> 10],
   [requiresReasoning |-> FALSE, requiresSpeed |-> TRUE,  budget |-> NoNumber],
   [requiresReasoning |-> FALSE, requiresSpeed |-> FALSE, budget |-> 1],
   [requiresReasoning |-> FALSE, requiresSpeed |-> TRUE,  budget |-> 1]}

\* Requests left to the policy, and requests naming a provider, a model or
\* both; "mistral" is no provider of the router.
PolicyRequests ==
  [provider : {Undefined}, model : {Undefined}, prompt : Prompts,
   options : OptionsSet, context : Contexts]

NamingRequests ==
  {[NoParams EXCEPT !.provider = p, !.model = m,
                    !.prompt = [text |-> "Hello, world!", length |-> 13]] :
     p \in {Undefined, "anthropic", "mistral"},
     m \in {Undefined, "claude-3-5-sonnet-20241022"}}

Requests == PolicyRequests \cup NamingRequests

NextRouter ==
  \/ \E params \in Requests, out \in {"ok", "fail"} :
       /\ Len(router.requestHistory) < MaxRequests
       /\ complete(params, out)
       /\ routerOnly
  \/ router.now < MaxRouterClock /\ routerTick /\ routerOnly

SpecRouter == Init /\ [][NextRouter]_vars

\* Three requests naming provider and model, differing in their prompts.
CacheRequests ==
  {[NoParams EXCEPT !.provider = "anthropic", !.model = "claude-3-5-sonnet-20241022",
                    !.prompt = [text |-> t, length |-> 1]] : t \in {"A", "B", "C"}}

NextCache ==
  \/ \E params \in CacheRequests, out \in {"ok", "fail"} :
       /\ Len(router.requestHistory) < MaxCacheRequests
       /\ complete(params, out)
       /\ routerOnly
  \/ router.now < MaxCacheClock /\ routerTick /\ routerOnly

SpecCache == Init /\ [][NextCache]_vars

\* ---------------------------------------------------------------- queries
\* getServerStatus(): one entry per entry of this.servers; the counts are the
\* registry keys that start with the server id.
getServerStatus ==
  [i \in {h \in Srv : servers[h] # NoObj} |->
     [connected |-> objs[servers[i]].connected,
      type |-> kind[i],
      toolCount |-> Cardinality({j \in 1..Len(tools) :
                                   startsWith(tools[j].key, ServerIds[i])}),
      resourceCount |-> Cardinality({j \in 1..Len(resources) :
                                       startsWith(resources[j].key, ServerIds[i])})]]

\* getAvailableTools(): the registry entries in Map order.
getAvailableTools ==
  [j \in 1..Len(tools) |->
     [id |-> tools[j].key, name |-> tools[j].name, server |-> tools[j].serverId]]

\* ------------------------------------------------------------------ claims
\* initialize() invocation k returns in this step.
returns(k) == task[k].pc # "returned" /\ task'[k].pc = "returned"

\* ... having run its loop with no other initialize() or shutdown() beside it.
returnsAlone(k) == returns(k) /\ task'[k].ran /\ ~task'[k].disturbed

\* Server i is in this.servers with connected = true.
isConnected(i) == servers[i] # NoObj /\ objs[servers[i]].connected

\* C1: initialize() returns normally with the manager initialized and
\* 'initialized' emitted, and when it returns the connected servers are exactly
\* the configured servers that answer `initialize`: an 'sse' server that answers
\* with a result, a command server whose spawned process is up.
C1_InitializeConnectsAnsweringServers ==
  [][\A k \in Inv :
       returns(k) =>
         /\ isInitialized'
         /\ returnsAlone(k) =>
              /\ nInitialized' = nInitialized + 1
              /\ \A i \in Srv :
                   isConnected(i)' <=>
                     \/ kind[i] = "sse" /\ answers[i]
                     \/ kind[i] = "command" /\ objs'[<<k, i>>].proc = "running"]_vars

\* C2: after initialize() every configured server has an entry in
\* getServerStatus(); with two process servers, the first failing and the second
\* up and listing the tool 'e', the first is reported not connected, the second
\* connected, and getAvailableTools() is exactly the second server's 'e'.
C2_StatusListsEveryConfiguredServer ==
  [][\A k \in Inv :
       returnsAlone(k) =>
         /\ \A i \in Srv : i \in DOMAIN getServerStatus'
         /\ (kind = [i \in Srv |-> "command"] /\ objs'[<<k, 2>>].proc = "running") =>
              /\ ~getServerStatus'[1].connected
              /\ getServerStatus'[2].connected
              /\ getAvailableTools' =
                   <<[id |-> toolKey(2, E), name |-> E, server |-> 2]>>]_vars

\* The request a callTool step hands to a transport.
sends == Len(calls') = Len(calls) + 1
sent == calls'[Len(calls')]

owners(nm) == {i \in Srv : \E j \in 1..Len(tools) :
                             tools[j].serverId = i /\ tools[j].name = nm}

\* C4: when several servers expose a tool of bare name n, callTool(n) goes to
\* the tool n of the first of them in configured-server order.
C4_BareNameGoesToFirstConfigured ==
  [][(sends /\ sent.req \in ToolNames /\ Cardinality(owners(sent.req)) > 1) =>
       /\ \A i \in owners(sent.req) : sent.obj[2] <= i
       /\ sent.obj[2] \in owners(sent.req)
       /\ sent.tool = sent.req]_vars

\* The entry the documented resolution selects: the entry with that qualified
\* id, else the first entry whose tool name is the name.
hasMatch(nm) == \E j \in 1..Len(tools) : tools[j].key = nm \/ tools[j].name = nm

\* C5: callTool fails with tool-not-found when nothing matches the name, with
\* server-unavailable when the matched tool's server is absent or not connected,
\* and a failing callTool sends nothing and changes no manager state.
C5_FailingCallToolChangesNothing ==
  [][ncall' = ncall + 1 =>
       /\ ~hasMatch(lastCall'.name) => lastCall'.outcome = "notfound"
       /\ lastCall'.outcome \in {"notfound", "unavailable"} =>
            UNCHANGED <<isInitialized, servers, objs, tools, resources, prompts,
                        task, calls>>
       /\ lastCall'.outcome = "sent" => isConnected(sent.obj[2])]_vars

\* C6: a call that timed out is settled once: nothing that arrives later for
\* its id reaches its resolve or reject, and no table entry leads to it.
C6_TimedOutCallSettledOnce ==
  \A c \in DOMAIN calls :
    calls[c].status = "timeout" =>
      /\ calls[c].settles = 1
      /\ \A id \in Ids : objs[calls[c].obj].handlers[id] # c

C6_Witness ==
  \E c \in DOMAIN calls :
    calls[c].status = "timeout" /\ calls[c].late /\ calls[c].settles = 1

\* C7: after shutdown(), callTool for a tool the registry held at the shutdown
\* fails with server-unavailable.
C7_AfterShutdownServerUnavailable ==
  [][(ncall' = ncall + 1 /\ lastCall'.name \in known) =>
       lastCall'.outcome = "unavailable"]_vars

\* C8: shutdown() fails every call that is in flight.
C8_ShutdownFailsInFlightCalls ==
  [][nshut' = nshut + 1 =>
       \A c \in DOMAIN calls :
         calls[c].status = "pending" => calls'[c].status # "pending"]_vars

C10_RefreshReproducesRegistry ==
  [][(mcpIntegration'.refreshes = mcpIntegration.refreshes + 1
        /\ mcpIntegration'.refreshed = "true"
        /\ tools # <<>>
        /\ \E i \in Srv : isConnected(i)) =>
       /\ isInitialized'
       /\ \A i \in Srv : isConnected(i) => isConnected(i)'
       /\ tools' = tools]_vars

\* C11: a tool call that arrives while a 'mcp-refresh' is under way (its handler
\* has run mcpManager.shutdown() and its reply is still on its way) is rejected:
\* no request is handed to a transport.
C11_CallDuringRefreshIsRejected ==
  [][(ncall' = ncall + 1 /\ mcpIntegration.refreshing) =>
       /\ lastCall'.outcome \in {"nomanager", "noentry", "notfound", "unavailable"}
       /\ calls' = calls]_vars

C11_Witness ==
  /\ mcpIntegration.refreshing
  /\ mcpIntegration.refreshed = "true"
  /\ lastCall.outcome = "notfound"
  /\ lastCall.name \in known

\* C12: the three catalog requests of a discovery pass are independent: whatever
\* the outcome of tools/list, resources/list is issued next for the same server,
\* and whatever the outcome of resources/list, prompts/list is issued next; the
\* server stays connected.
C12_CatalogRequestsIndependent ==
  [][\A k \in Inv :
       /\ (task[k].pc = "tools" /\ task'[k].pc # "tools") =>
            /\ task'[k].pc = "resources"
            /\ task'[k].idx = task[k].idx
       /\ (task[k].pc = "resources" /\ task'[k].pc # "resources") =>
            /\ task'[k].pc = "prompts"
            /\ task'[k].idx = task[k].idx
       /\ (task[k].pc \in {"tools", "resources", "prompts"} /\ ~task[k].disturbed
             /\ ~task'[k].disturbed) =>
            isConnected(task[k].idx)']_vars

\* C13: registries are published by replacement: while an initialize() pass
\* runs, with no other call beside it, a registry that already holds entries
\* (which a reader may have seen) gains no further entry, so that no reader sees
\* some but not all of what the pass publishes.
C13_RegistriesPublishedWhole ==
  [][(\E k \in Inv : Active(task[k]) /\ ~task[k].disturbed /\ ~task'[k].disturbed) =>
       /\ tools = <<>> \/ tools' = tools
       /\ resources = <<>> \/ resources' = resources]_vars

\* The servers that own an entry of some registry.
ownsEntries(i) ==
  \/ \E j \in 1..Len(tools) : tools[j].serverId = i
  \/ \E j \in 1..Len(resources) : resources[j].serverId = i
  \/ \E j \in 1..Len(prompts) : prompts[j].serverId = i

notOwnedBy(m, i) == SelectSeq(m, LAMBDA e : e.serverId # i)

C18_PendingRequestKeepsTimer ==
  \A c \in DOMAIN calls :
    (kind[calls[c].obj[2]] = "sse" /\ calls[c].status = "pending") => calls[c].timer

\* C19: a reply that carries a JSON-RPC error member makes the send fail: a
\* tools/call answered with an error rejects the caller of callTool, and an
\* initialize answered with an error does not leave the server connected.
C19_RpcErrorFailsTheSend ==
  [][/\ \A c \in DOMAIN calls :
          toolCallResponse(c, "rpcerror") => calls'[c].status = "rejected"
     /\ \A o \in ObjIds, id \in Ids :
          (handleJSONRPCMessage(o, id, TRUE) /\ objs[o].handlers[id] # NoCall) =>
            calls'[objs[o].handlers[id]].status # "resolved"
     /\ \A k \in Inv :
          createSSEConnection(k, "rpcerror") => ~isConnected(task[k].idx)']_vars

\* C20: a callTool that reaches a connected process server sends exactly one
\* tools/call request, for the tool's own name, to that server, and the call is
\* resolved only by a response line of that server whose id is the request's id.
C20_OneRequestResolvedByItsId ==
  [][/\ \A nm \in CallNames :
          (callTool(nm) /\ callToolOutcome(nm) = "sent") =>
            /\ Len(calls') = Len(calls) + 1
            /\ \A c \in DOMAIN calls : calls'[c] = calls[c]
            /\ calls'[Len(calls')].obj = servers[findTool(nm).serverId]
            /\ calls'[Len(calls')].tool = findTool(nm).name
            /\ calls'[Len(calls')].status = "pending"
     /\ \A c \in DOMAIN calls :
          (calls[c].status = "pending" /\ calls'[c].status = "resolved") =>
            handleJSONRPCMessage(calls[c].obj, calls[c].id, FALSE)]_vars

C20_Witness ==
  \E c, d \in DOMAIN calls :
    /\ calls[c].obj = calls[d].obj
    /\ calls[c].id # calls[d].id
    /\ calls[c].status = "resolved"
    /\ calls[d].status = "pending"
    /\ calls[d].late = FALSE
    /\ lastCall.outcome = "sent"

\* The calls still waiting for a message of server o with this id.
waiting(o, id) ==
  {c \in DOMAIN calls : calls[c].obj = o /\ calls[c].id = id /\ calls[c].status = "pending"}

RECURSIVE messagesOf(_)
messagesOf(lines) ==
  IF lines = <<>> THEN <<>>
  ELSE IF trim(Head(lines)) # <<>> /\ JSONparse(Head(lines)).ok
    THEN <<[id |-> JSONparse(Head(lines)).id, text |-> JSONparse(Head(lines)).text]>>
           \o messagesOf(Tail(lines))
  ELSE messagesOf(Tail(lines))

expectedMessages(out) ==
  LET lines == split(toString(out)) IN messagesOf(SubSeq(lines, 1, Len(lines) - 1))

\* C22: however the output of a process is cut into reads, once all of it has
\* been read the messages dispatched are those of its newline-terminated,
\* non-blank, parseable lines, in order.
C22_DispatchIndependentOfReads ==
  stdout.rest = <<>> => stdout.dispatched = expectedMessages(stdout.output)

\* What the 'data' listener of FrameObj works on in the current state.
listenerState ==
  [buffer |-> stdout.buffer, objs |-> objs, calls |-> calls,
   dispatched |-> stdout.dispatched]

\* C23: a line that fails to parse leaves no trace: at a line boundary, reading
\* the line "x" before any later output (in the same read, in a read of its
\* own, or cut before its newline) ends in the state that the later output
\* alone ends in: same connected flags and pending tables, same settled calls,
\* same buffer, same messages dispatched.
C23_InvalidLineLeavesNoTrace ==
  stdout.buffer = <<>> =>
    \A later \in Outputs :
      LET alone == onData(listenerState, FrameObj, later) IN
      /\ onData(listenerState, FrameObj, <<"x", NL>> \o later) = alone
      /\ onData(onData(listenerState, FrameObj, <<"x", NL>>), FrameObj, later) = alone
      /\ onData(onData(listenerState, FrameObj, <<"x">>), FrameObj, <<NL>> \o later) = alone

C23_Witness ==
  /\ stdout.output = <<"x", NL, "{", "1", "}", NL>>
  /\ stdout.rest = <<>>
  /\ stdout.buffer = <<>>
  /\ \E c \in DOMAIN calls : calls[c].status = "resolved" /\ calls[c].obj = FrameObj

\* C24: when shutdown() returns, no process the manager spawned is left running
\* without a termination signal (those of failed connect attempts included), no
\* connection is marked connected, and the server, tool, resource and prompt
\* registries are empty.
C24_ShutdownTerminatesEverything ==
  [][nshut' = nshut + 1 =>
       /\ \A o \in ObjIds : objs'[o].proc # "running" /\ ~objs'[o].connected
       /\ \A i \in Srv : servers'[i] = NoObj
       /\ tools' = <<>> /\ resources' = <<>> /\ prompts' = <<>>]_vars

\* C25: shutdown() is idempotent: every shutdown ends with no servers, empty
\* registries and the manager not initialized, and a shutdown of a manager that
\* is already in that state (shut down before, or never initialized) changes
\* nothing.
C25_ShutdownIdempotent ==
  [][nshut' = nshut + 1 =>
       /\ \A i \in Srv : servers'[i] = NoObj
       /\ tools' = <<>> /\ resources' = <<>> /\ prompts' = <<>>
       /\ ~isInitialized'
       /\ (/\ \A i \in Srv : servers[i] = NoObj
           /\ tools = <<>> /\ resources = <<>> /\ prompts = <<>>
           /\ ~isInitialized) =>
            /\ objs' = objs
            /\ calls' = calls]_vars

C25_Witness ==
  /\ nshut = 2
  /\ nInitialized = 1
  /\ known = {}
  /\ ~isInitialized
  /\ task[1].pc = "returned" /\ task[1].ran
  /\ task[2].pc = "idle"

\* C26: a connection object only moves forward: its connected flag becomes true
\* only on an object that has never been connected and whose process has not
\* exited; a connection that was connected and is not any more stays so.
C26_ConnectionOnlyMovesForward ==
  [][\A o \in ObjIds :
       (objs'[o].connected /\ ~objs[o].connected) =>
         /\ ~objs[o].wasConnected
         /\ objs[o].proc # "exited"]_vars

C26_Witness ==
  \E i \in Srv, o \in ObjIds, q \in ObjIds :
    /\ o[2] = i /\ q[2] = i /\ o # q
    /\ objs[o].wasConnected /\ ~objs[o].connected
    /\ objs[q].connected /\ servers[i] = q
    /\ nshut = 1

\* initialize() invocation k has begun its connect attempt for server j: the
\* loop has reached entry j, or the attempt has spawned j's process.
attemptStarted(k, j) ==
  \/ task[k].idx >= j
  \/ objs[<<k, j>>].proc # "none"

\* C27: inside initialize() the connect attempts run concurrently: while the
\* invocation waits for one server's attempt to settle, the attempt for every
\* other configured server has been started.
C27_AttemptsStartTogether ==
  \A k \in Inv :
    Active(task[k]) => \A j \in Srv : attemptStarted(k, j)

\* C28: for every server getServerStatus() reports, toolCount is the number of
\* tool registry entries owned by that server and resourceCount the number of
\* resource registry entries owned by it.
C28_StatusCountsOwnedEntries ==
  \A i \in DOMAIN getServerStatus :
    /\ getServerStatus[i].toolCount =
         Cardinality({j \in 1..Len(tools) : tools[j].serverId = i})
    /\ getServerStatus[i].resourceCount =
         Cardinality({j \in 1..Len(resources) : resources[j].serverId = i})

\* Nothing is in progress: no initialize() of the manager or of the
\* integration, no 'mcp-refresh'.
quiescent ==
  /\ \A k \in Inv : ~Active(task[k])
  /\ mcpIntegration.pc = "returned"
  /\ ~mcpIntegration.refreshing

\* C29: in every quiescent state the names in the integration's flattened
\* registry are the bare names of the tools in the manager's registry.
C29_FlattenedRegistryFollowsManager ==
  quiescent =>
    {mcpIntegration.toolRegistry[j].key : j \in 1..Len(mcpIntegration.toolRegistry)}
      = {tools[j].name : j \in 1..Len(tools)}

\* C30: executeTool for a name that has an entry in the flattened registry
\* either fails or sends one tools/call for that entry's tool name to that
\* entry's server.
C30_EntryBoundToItsQualifiedId ==
  [][\A nm \in ToolNames :
       (executeTool(nm) /\ MapHas(mcpIntegration.toolRegistry, nm)) =>
         \/ calls' = calls
         \/ /\ sends
            /\ sent.tool = nm
            /\ sent.obj[2] = MapGet(mcpIntegration.toolRegistry, nm).server
            /\ \A c \in DOMAIN calls : calls'[c] = calls[c]]_vars

C30_Witness ==
  /\ lastCall = [name |-> toolKey(1, NE), outcome |-> "sent"]
  /\ \E c \in DOMAIN calls : calls[c].tool = NE /\ calls[c].obj[2] = 1
  /\ MapHas(mcpIntegration.toolRegistry, NE)
  /\ MapHas(mcpIntegration.toolRegistry, E)
  /\ MapGet(mcpIntegration.toolRegistry, E).server = 2

\* C31: getHighPriorityTools() never influences dispatch: a step that changes
\* what the filter returned, whatever the allow-list, changes nothing else of
\* the integration or the manager, and callTool finds the same tool and the
\* same server for every name as before.
C31_PriorityFilterLeavesDispatchAlone ==
  [][mcpIntegration'.highPriority # mcpIntegration.highPriority =>
       /\ mcpIntegration' = [mcpIntegration EXCEPT !.highPriority = mcpIntegration'.highPriority]
       /\ UNCHANGED <<isInitialized, servers, objs, tools, resources, prompts, calls>>
       /\ \A nm \in CallNames :
            /\ findTool(nm)' = findTool(nm)
            /\ callToolOutcome(nm)' = callToolOutcome(nm)]_vars

C31_Witness ==
  /\ Len(mcpIntegration.highPriority) = 1
  /\ mcpIntegration.highPriority[1].server = 2
  /\ \E j \in 1..Len(tools) : tools[j].serverId = 1 /\ tools[j].name = E
  /\ findTool(E).serverId = 1

\* The latest entry of the request history.
lastRecorded == router.requestHistory[Len(router.requestHistory)]

\* This step is a complete() repeating the request of the complete() before
\* it, which called a provider and stored its response at most Ttl ago.
repeatsWithinTtl ==
  /\ Len(router'.requestHistory) = Len(router.requestHistory) + 1
  /\ router.last.called /\ ~router.last.threw
  /\ router'.last.params = router.last.params
  /\ router.now - lastRecorded.timestamp <= Ttl

\* C32: a request repeated within the TTL of its stored response is a cache
\* hit: complete() returns the stored response marked cached and calls no
\* provider, also when the request names no provider or model and was routed
\* by policy.
C32_RepeatWithinTtlIsCacheHit ==
  [][repeatsWithinTtl =>
       /\ ~router'.last.called /\ ~router'.last.threw
       /\ router'.last.response = [router.last.response EXCEPT !.cached = TRUE]]_vars

\* C33: a request that names a provider is served by that provider, and one
\* that names a model by that model, rather than by the policy's choice.
C33_ExplicitSelectionHonored ==
  (router.last # NoRequest /\ ~router.last.threw) =>
     /\ router.last.params.provider # Undefined =>
          router.last.response.routing.provider = router.last.params.provider
     /\ router.last.params.model # Undefined =>
          router.last.response.routing.model = router.last.params.model

\* The latest complete() was left to the policy with context c and a short
\* prompt, and a provider served it.
policyServed(c) ==
  /\ router.last.called /\ ~router.last.threw
  /\ router.last.params.provider = Undefined /\ router.last.params.model = Undefined
  /\ router.last.params.prompt.length = 13
  /\ router.last.params.context = c

servedBy(provider, model) ==
  /\ router.last.response.routing.provider = provider
  /\ router.last.response.routing.model = model

\* C34: with no custom rules and a short prompt, a request of budget 0.01
\* with no reasoning or speed flag is routed to anthropic /
\* claude-3-5-haiku-20241022, a reasoning request of budget 0.10 to openai /
\* gpt-4o, a speed request to vertex / gemini-1.5-flash, and a plain request
\* to openai / gpt-4o-mini.
C34_BenchmarkScenariosRouted ==
  /\ policyServed([requiresReasoning |-> FALSE, requiresSpeed |-> FALSE, budget |-> 1])
       => servedBy("anthropic", "claude-3-5-haiku-20241022")
  /\ policyServed([requiresReasoning |-> TRUE, requiresSpeed |-> FALSE, budget |-> 10])
       => servedBy("openai", "gpt-4o")
  /\ policyServed([requiresReasoning |-> FALSE, requiresSpeed |-> TRUE, budget |-> NoNumber])
       => servedBy("vertex", "gemini-1.5-flash")
  /\ policyServed([requiresReasoning |-> FALSE, requiresSpeed |-> FALSE, budget |-> NoNumber])
       => servedBy("openai", "gpt-4o-mini")

\* The cache key a recorded request read (a hit) or wrote (a miss served).
usedKey(record) ==
  _generateKey([provider |-> record.request.provider, model |-> record.request.model,
                prompt |-> record.request.prompt, options |-> record.request.options])

\* The position in the request history of the latest access, read or write,
\* of the entry of key k; 0 if there is none.
lastAccess(k) ==
  LET at == {i \in 1..Len(router.requestHistory) :
               /\ router.requestHistory[i].request.success
               /\ usedKey(router.requestHistory[i]) = k}
  IN IF at = {} THEN 0 ELSE CHOOSE i \in at : \A j \in at : j <= i

\* This step's set() evicts the entry of key k and keeps the entry of key s.
evictsButKeeps(k, s) ==
  /\ MapHas(router.index, k) /\ ~MapHas(router'.index, k)
  /\ MapHas(router.index, s) /\ MapHas(router'.index, s)
  /\ router'.last.called /\ ~router'.last.threw
  /\ k # _generateKey(lookupParams(router'.last.params))
  /\ s # _generateKey(storeParams(router'.last.params, router'.last.response.routing))

\* C35: eviction is least-recently-used: an entry is evicted only if every
\* entry that stays was accessed, read or written, more recently than it.
C35_EvictionIsLeastRecentlyUsed ==
  [][\A i, j \in 1..Len(router.index) :
       evictsButKeeps(router.index[i].key, router.index[j].key)
         => lastAccess(router.index[i].key) < lastAccess(router.index[j].key)]_vars

\* C36: the bare-name fallback of callTool selects only a descriptor whose
\* tool name equals the requested name, never one whose key merely ends with
\* '/' + name, and an unknown qualified id 's/n' is never redirected to a
\* tool of another server.
C36_FallbackMatchesExactName ==
  \A nm \in CallNames :
    (~MapHas(tools, nm) /\ findTool(nm) # NoTool) =>
       /\ findTool(nm).name = nm
       /\ \A i \in Srv : startsWith(nm, ServerIds[i] \o Slash)
                            => findTool(nm).serverId = i

\* The servers whose tool of bare name n the manager's registry holds.
exposing(n) == {tools[j].serverId : j \in {h \in 1..Len(tools) : tools[h].name = n}}

\* C37: when two servers expose a tool of the same bare name n, executeTool(n)
\* through the flattened registry and callTool(n) through the manager
\* dispatch to the same server.
C37_BothInvocationsSameServer ==
  \A n \in ToolNames :
    (Cardinality(exposing(n)) >= 2 /\ MapHas(mcpIntegration.toolRegistry, n)) =>
       findTool(MapGet(mcpIntegration.toolRegistry, n).toolKey).serverId
         = findTool(n).serverId

afterShutdown == nshut >= 1 /\ known # {} /\ known' # {}

\* C39: once shutdown() has returned and no new initialize() is called, the
\* manager stays empty: an initialize() that was in progress when shutdown()
\* ran adds no server and no registry entry afterwards, spawns no process and
\* does not mark the manager initialized.
C39_ManagerStaysEmptyAfterShutdown ==
  [][afterShutdown =>
       /\ \A i \in Srv : servers'[i] = NoObj
       /\ tools' = <<>> /\ resources' = <<>> /\ prompts' = <<>>
       /\ ~isInitialized'
       /\ \A o \in ObjIds : objs[o].proc = "none" => objs'[o].proc = "none"]_vars

\* This step is the call of initialize() invocation k while another
\* invocation is in progress.
secondInitialize(k) ==
  /\ task[k].pc = "idle" /\ task'[k].pc # "idle"
  /\ \E h \in Inv \ {k} : Active(task[h])

\* C40: at most one connect attempt per server is made between two shutdowns:
\* an initialize() called while an earlier one is in progress starts no
\* connection and spawns no process, and no connection object whose process
\* is running is replaced in the server map.
C40_OneConnectAttemptPerServer ==
  [][/\ \A k \in Inv :
          secondInitialize(k) =>
            /\ ~Active(task'[k])
            /\ \A o \in ObjIds : objs'[o].proc = objs[o].proc
      /\ \A i \in Srv :
          (servers[i] # NoObj /\ objs[servers[i]].proc = "running")
            => servers'[i] \in {servers[i], NoObj}]_vars
====
